---- MODULE Spec2Model ----
(***************************************************************************)
(* Text-to-image layout pipeline of astrbot_plugin_text-renderer.           *)
(*                                                                         *)
(* Two copies of the pipeline exist in the repository:                      *)
(*   impl = "main"  : text_to_image in main.py (parse, wrap_line, height    *)
(*                    pass, drawing pass, all inside one function);         *)
(*   impl = "utils" : _parse_text_to_render_units, _calculate_layout and    *)
(*                    _draw_image_content in utils/image_utils.py.          *)
(* A behaviour of Spec is one call of one of the two, on one input.  Under  *)
(* SpecTwoCalls a finished call is followed by a second one on the same     *)
(* input: the other copy, or _calculate_layout again on the same render     *)
(* units.                                                                   *)
(*                                                                         *)
(* A character is a one-character string, a text is a sequence of           *)
(* characters.  A styled run is [text, style]; a placeholder is [type].     *)
(* A physical line is a sequence of such records.                           *)
(***************************************************************************)
EXTENDS Integers, Sequences, FiniteSets, TLC

VARIABLES
    text_content,       \* argument: the raw text
    width,              \* argument: canvas width
    padding,            \* argument: padding
    text_line_spacing,  \* argument
    divider_margin,     \* argument
    impl,               \* which copy of the pipeline is called
    pc,                 \* position in the pipeline
    exc,                \* exception raised ("none" while running normally)
    original_lines,     \* text_content.split("\n")
    li,                 \* index of the next logical line (1-based)
    render_units,       \* utils: output of _parse_text_to_render_units
    ui,                 \* utils: index of the next render unit (1-based)
    runs,               \* runs of the logical line being wrapped
    merged_runs,        \* merged_runs of the wrapper
    ri,                 \* index of the run the wrapper is in (1-based)
    i,                  \* main: character index in the run (0-based)
    start,              \* utils: character index in the run (0-based)
    current_line,       \* wrapper: the physical line under construction
    current_width,      \* wrapper: its accumulated width
    lines,              \* wrapper: closed physical lines of this logical line
    stall,              \* consecutive wrapper iterations that consumed no character
    processed_lines,    \* all physical lines so far
    k,                  \* index of the next line of the height / drawing pass
    total_height,       \* height pass accumulator
    img_height,         \* canvas height
    current_y,          \* drawing pass cursor
    call,               \* "first", or which second call is running
    first_lines,        \* physical lines the first call produced
    first_height        \* total height the first call computed

vars == <<text_content, width, padding, text_line_spacing, divider_margin, impl,
          pc, exc, original_lines, li, render_units, ui, runs, merged_runs, ri,
          i, start, current_line, current_width, lines, stall, processed_lines,
          k, total_height, img_height, current_y, call, first_lines,
          first_height>>

----------------------------------------------------------------------------
(* Bounds of the explored inputs. *)

MaxPlainLen == 4   \* longest unmarked text of the wrapping inputs
MaxSeg      == 2   \* longest segment of the texts  x ** y ** z
MaxStarLen  == 6   \* longest text over letters and asterisks
MaxLineLen  == 4   \* longest single line over dashes, blanks and letters
MaxDocLines == 3   \* most logical lines of a multi-line document
MaxStall    == 2   \* wrapper iterations without progress that are followed

----------------------------------------------------------------------------
(* Generic sequence helpers. *)

Max2(a, b) == IF a >= b THEN a ELSE b

Seqs(S, n) == UNION {[1..m -> S] : m \in 0..n}

\* python: s[a:b] with 0 <= a, 0 <= b (0-based, end exclusive)
Slice(s, a, b) == SubSeq(s, a + 1, IF b > Len(s) THEN Len(s) ELSE b)

\* Characters outside ASCII are written as their code point.
NL == "\n"
Star == "*"
EmDash == "U+2014"      \* the dash accepted in a divider line
RuleChar == "U+2500"    \* the box-drawing character the rule is drawn with

----------------------------------------------------------------------------
(* Glyph metrics: the stand-in for the two font faces.  font.getbbox(t) is   *)
(* (0, 0, advance width, height); a text's width is the sum of its           *)
(* characters' widths, its height the tallest of its glyphs.  "W" is wider   *)
(* than every content width explored, "z" has no advance.                    *)

CharWidth(char, style) ==
    LET w == CASE char = "z" -> 0
               [] char = "W" -> 7
               [] char \in {".", ",", " "} -> 1
               [] OTHER -> 2
    IN IF style = "bold" /\ w > 0 THEN w + 1 ELSE w

CharHeight(char, style) ==
    LET h == CASE char \in {".", ",", "-", EmDash, RuleChar} -> 1
               [] char \in {" ", "*"} -> 2
               [] OTHER -> 3
    IN IF style = "bold" THEN h + 1 ELSE h

RECURSIVE TextWidth(_, _)
TextWidth(text, style) ==
    IF text = <<>> THEN 0
    ELSE CharWidth(Head(text), style) + TextWidth(Tail(text), style)

RECURSIVE TextHeight(_, _)
TextHeight(text, style) ==
    IF text = <<>> THEN 0
    ELSE Max2(CharHeight(Head(text), style), TextHeight(Tail(text), style))

get_run_width(run) == TextWidth(run.text, run.style)

RECURSIVE get_line_height(_)
get_line_height(line_runs) ==
    IF line_runs = <<>> THEN 0
    ELSE LET run == Head(line_runs)
             h == TextHeight(run.text,
                             IF "style" \in DOMAIN run THEN run.style ELSE "normal")
         IN Max2(h, get_line_height(Tail(line_runs)))

----------------------------------------------------------------------------
(* Markup parser. *)

no_start_chars ==
    {",", ".", "!", "?", ";", ":", "}", "]", ")", ">", "U+300B", "U+3011",
     "U+300F", "U+FF0C", "U+3002", "U+FF01", "U+FF1F", "U+FF1B", "U+FF1A",
     "U+201D", "U+2019", "U+FF09", "U+3009", "U+3001"}

divider_placeholder == <<[type |-> "divider"]>>
empty_line_placeholder == <<[type |-> "empty"]>>

\* text_content.split("\n")
RECURSIVE SplitLines(_, _)
SplitLines(text, acc) ==
    IF text = <<>> THEN <<acc>>
    ELSE IF Head(text) = NL THEN <<acc>> \o SplitLines(Tail(text), <<>>)
    ELSE SplitLines(Tail(text), Append(acc, Head(text)))

IsSpace(c) == c \in {" ", "\t", "\r", "\f", NL}

RECURSIVE lstrip(_)
lstrip(s) == IF s # <<>> /\ IsSpace(Head(s)) THEN lstrip(Tail(s)) ELSE s

RECURSIVE rstrip(_)
rstrip(s) ==
    IF s # <<>> /\ IsSpace(s[Len(s)]) THEN rstrip(SubSeq(s, 1, Len(s) - 1)) ELSE s

strip(s) == rstrip(lstrip(s))

\* not original_line.strip() and original_line == ""
IsEmptyLine(original_line) == strip(original_line) = <<>> /\ original_line = <<>>

\* a divider test that is content with two dashes
IsDividerLine_TwoDashes(original_line) ==
    LET s == strip(original_line)
    IN Len(s) >= 2 /\ {s[j] : j \in 1..Len(s)} \subseteq {"-", EmDash}

\* len(original_line.strip()) >= 3 and set(original_line.strip()) <= {"-", EmDash}
IsDividerLine(original_line) ==
    LET s == strip(original_line)
    IN Len(s) >= 3 /\ {s[j] : j \in 1..Len(s)} \subseteq {"-", EmDash}

\* "**" at 1-based position p of s
StarsAt(s, p) == p >= 1 /\ p + 1 <= Len(s) /\ s[p] = Star /\ s[p + 1] = Star

\* the pattern \*\*.*?\*\* matched at p: position of the closing "**" (0: no match)
MatchClose(s, p) ==
    IF StarsAt(s, p) /\ \E q \in (p + 2)..Len(s) : StarsAt(s, q)
    THEN CHOOSE q \in (p + 2)..Len(s) :
            StarsAt(s, q) /\ \A q2 \in (p + 2)..(q - 1) : ~StarsAt(s, q2)
    ELSE 0

\* leftmost position where the pattern matches (0: none)
MatchOpen(s) ==
    IF \E p \in 1..Len(s) : MatchClose(s, p) # 0
    THEN CHOOSE p \in 1..Len(s) :
            MatchClose(s, p) # 0 /\ \A p2 \in 1..(p - 1) : MatchClose(s, p2) = 0
    ELSE 0

\* re.split(r"(\*\*.*?\*\*)", line_text): unmatched text and matches alternate
RECURSIVE re_split(_)
re_split(s) ==
    LET p == MatchOpen(s)
        q == MatchClose(s, p)
    IN IF p = 0 THEN <<s>>
       ELSE <<SubSeq(s, 1, p - 1), SubSeq(s, p, q + 1)>>
               \o re_split(SubSeq(s, q + 2, Len(s)))

startswith_stars(part) == StarsAt(part, 1)
endswith_stars(part) == StarsAt(part, Len(part) - 1)

\* the runs one part contributes (before the final filter)
PartRuns(part) ==
    IF startswith_stars(part) /\ endswith_stars(part)
    THEN <<[text |-> Slice(part, 2, Len(part) - 2), style |-> "bold"]>>
    ELSE IF part # <<>> THEN <<[text |-> part, style |-> "normal"]>>
    ELSE <<>>

RECURSIVE PartsRuns(_)
PartsRuns(parts) ==
    IF parts = <<>> THEN <<>> ELSE PartRuns(Head(parts)) \o PartsRuns(Tail(parts))

IsNonEmptyRun(r) == r.text # <<>>

parse_line_to_runs(line_text) == SelectSeq(PartsRuns(re_split(line_text)), IsNonEmptyRun)

----------------------------------------------------------------------------
(* Merge of adjacent runs of one style, at the head of both wrappers. *)

RECURSIVE MergeInto(_, _)
MergeInto(merged, rest) ==
    IF rest = <<>> THEN merged
    ELSE LET r == Head(rest)
             n == Len(merged)
         IN IF r.style = merged[n].style
            THEN MergeInto([merged EXCEPT ![n].text = @ \o r.text], Tail(rest))
            ELSE MergeInto(Append(merged, r), Tail(rest))

MergeRuns(rs) == IF rs = <<>> THEN <<>> ELSE MergeInto(<<Head(rs)>>, Tail(rs))

\* The merge appends to the text of the run object it took from the input
\* list, so the caller's list is left with the merged text in the first run
\* of every group.
RECURSIVE GroupText(_, _)
GroupText(rs, j) ==
    IF j < Len(rs) /\ rs[j + 1].style = rs[j].style
    THEN rs[j].text \o GroupText(rs, j + 1)
    ELSE rs[j].text

RunsAfterMerge(rs) ==
    [j \in 1..Len(rs) |->
        IF j = 1 \/ rs[j - 1].style # rs[j].style
        THEN [rs[j] EXCEPT !.text = GroupText(rs, j)]
        ELSE rs[j]]

----------------------------------------------------------------------------
(* Inputs. *)

Stars == <<Star, Star>>

RECURSIVE Join(_)
Join(ls) ==
    IF Len(ls) = 1 THEN ls[1] ELSE ls[1] \o <<NL>> \o Join(Tail(ls))

\* unmarked lines: letters, a forbidden leader, an oversize and a zero-width glyph
PlainTexts == Seqs({"a", ".", "W", "z"}, MaxPlainLen)

\* one bold span between two normal segments
BoldTexts ==
    {x \o Stars \o y \o Stars \o t :
        x \in Seqs({"a", "."}, MaxSeg), y \in Seqs({"a", "."}, MaxSeg),
        t \in Seqs({"a", "."}, MaxSeg)}

\* any arrangement of letters and asterisks
StarTexts == Seqs({"a", Star}, MaxStarLen)

\* single lines of dashes, blanks and letters
LineTexts == Seqs({"-", EmDash, " ", "a"}, MaxLineLen)

\* documents of several logical lines
LineChoices ==
    {<<>>, <<"a">>, <<"-", "-">>, <<"-", "-", "-">>,
     <<"-", "-", "-", "-", "-", "-">>, Stars}

DocTexts == {Join(ls) : ls \in UNION {[1..m -> LineChoices] : m \in 1..MaxDocLines}}

\* narrow canvases, on which lines wrap
WrapGeometries ==
    {[width |-> 5, padding |-> 1], [width |-> 6, padding |-> 1],
     [width |-> 9, padding |-> 2]}

\* the configured defaults of the plugin
DefaultGeometry == [width |-> 1080, padding |-> 40]

Inputs ==
    [text : PlainTexts \cup BoldTexts, geom : WrapGeometries,
     spacing : {5}, margin : {10}]
    \cup [text : StarTexts \cup LineTexts, geom : {DefaultGeometry},
          spacing : {5}, margin : {10}]
    \cup [text : DocTexts, geom : {DefaultGeometry},
          spacing : {0, 5}, margin : {10}]
    \cup [text : DocTexts, geom : {[width |-> 6, padding |-> 1]},
          spacing : {5}, margin : {10}]

max_content_width == width - (2 * padding)

----------------------------------------------------------------------------
(* Initial state: one call, before its first statement. *)

Init ==
    \E inp \in Inputs, m \in {"main", "utils"} :
        /\ text_content = inp.text
        /\ width = inp.geom.width
        /\ padding = inp.geom.padding
        /\ text_line_spacing = inp.spacing
        /\ divider_margin = inp.margin
        /\ impl = m
        /\ pc = "split"
        /\ exc = "none"
        /\ original_lines = <<>>
        /\ li = 1
        /\ render_units = <<>>
        /\ ui = 1
        /\ runs = <<>>
        /\ merged_runs = <<>>
        /\ ri = 1
        /\ i = 0
        /\ start = 0
        /\ current_line = <<>>
        /\ current_width = 0
        /\ lines = <<>>
        /\ stall = 0
        /\ processed_lines = <<>>
        /\ k = 1
        /\ total_height = 0
        /\ img_height = 0
        /\ current_y = 0
        /\ call = "first"
        /\ first_lines = <<>>
        /\ first_height = 0

inputVars == <<text_content, width, padding, text_line_spacing, divider_margin, impl>>
wrapVars == <<runs, merged_runs, ri, i, start, current_line, current_width, lines, stall>>
passVars == <<k, total_height, img_height, current_y>>
keptVars == <<call, first_lines, first_height>>

----------------------------------------------------------------------------
(* Parsing loop: main.py 247-259, image_utils.py 76-86. *)

Split ==
    /\ pc = "split"
    /\ original_lines' = SplitLines(text_content, <<>>)
    /\ li' = 1
    /\ pc' = "parse"
    /\ UNCHANGED <<inputVars, keptVars, exc, render_units, ui, wrapVars, processed_lines, passVars>>

AppendEmpty ==
    /\ pc = "parse"
    /\ li <= Len(original_lines)
    /\ IsEmptyLine(original_lines[li])
    /\ IF impl = "main"
       THEN /\ processed_lines' = Append(processed_lines, empty_line_placeholder)
            /\ UNCHANGED render_units
       ELSE /\ render_units' = Append(render_units, empty_line_placeholder)
            /\ UNCHANGED processed_lines
    /\ li' = li + 1
    /\ UNCHANGED <<inputVars, keptVars, pc, exc, original_lines, ui, wrapVars, passVars>>

AppendDivider ==
    /\ pc = "parse"
    /\ li <= Len(original_lines)
    /\ ~IsEmptyLine(original_lines[li])
    /\ IsDividerLine(original_lines[li])
    /\ IF impl = "main"
       THEN /\ processed_lines' = Append(processed_lines, divider_placeholder)
            /\ UNCHANGED render_units
       ELSE /\ render_units' = Append(render_units, divider_placeholder)
            /\ UNCHANGED processed_lines
    /\ li' = li + 1
    /\ UNCHANGED <<inputVars, keptVars, pc, exc, original_lines, ui, wrapVars, passVars>>

\* main.py 257: runs = parse_line_to_runs(original_line), then wrap_line(runs)
ParseContentMain ==
    /\ pc = "parse"
    /\ impl = "main"
    /\ li <= Len(original_lines)
    /\ ~IsEmptyLine(original_lines[li])
    /\ ~IsDividerLine(original_lines[li])
    /\ runs' = parse_line_to_runs(original_lines[li])
    /\ pc' = "wrap_line"
    /\ UNCHANGED <<inputVars, keptVars, exc, original_lines, li, render_units, ui, merged_runs,
                   ri, i, start, current_line, current_width, lines, stall,
                   processed_lines, passVars>>

\* image_utils.py 85-86: render_units.append(parse_line_to_runs(original_line))
ParseContentUtils ==
    /\ pc = "parse"
    /\ impl = "utils"
    /\ li <= Len(original_lines)
    /\ ~IsEmptyLine(original_lines[li])
    /\ ~IsDividerLine(original_lines[li])
    /\ render_units' = Append(render_units, parse_line_to_runs(original_lines[li]))
    /\ li' = li + 1
    /\ UNCHANGED <<inputVars, keptVars, pc, exc, original_lines, ui, wrapVars, processed_lines,
                   passVars>>

\* the loop over the logical lines is over
ParseLoopEnd ==
    /\ pc = "parse"
    /\ li > Len(original_lines)
    /\ IF impl = "main"
       THEN /\ pc' = "measure"
            /\ UNCHANGED <<ui, processed_lines>>
       ELSE /\ pc' = "layout"
            /\ ui' = 1
            /\ processed_lines' = <<>>
    /\ k' = 1
    /\ total_height' = 0
    /\ UNCHANGED <<inputVars, keptVars, exc, original_lines, li, render_units, wrapVars,
                   img_height, current_y>>

----------------------------------------------------------------------------
(* Position of a wrapper in merged_runs: run ri, character i (or start).     *)

\* first run at or after r whose text the inner while loop enters
RECURSIVE NextRun(_, _)
NextRun(mr, r) ==
    IF r > Len(mr) THEN r
    ELSE IF mr[r].text # <<>> THEN r
    ELSE NextRun(mr, r + 1)

\* a placement that puts the character into the last run whatever its style
PlaceChar_KeepRun(cl, char, style) ==
    IF cl = <<>>
    THEN Append(cl, [text |-> <<char>>, style |-> style])
    ELSE [cl EXCEPT ![Len(cl)].text = Append(@, char)]

\* the last run of the current line closes with the character, or a new run opens
PlaceChar(cl, char, style) ==
    IF cl = <<>> \/ cl[Len(cl)].style # style
    THEN Append(cl, [text |-> <<char>>, style |-> style])
    ELSE [cl EXCEPT ![Len(cl)].text = Append(@, char)]

\* main.py 211-213: index of the last run with text (0: none)
LastRunIndex(cl) ==
    IF \E j \in 1..Len(cl) : cl[j].text # <<>>
    THEN CHOOSE j \in 1..Len(cl) :
            cl[j].text # <<>> /\ \A j2 \in (j + 1)..Len(cl) : cl[j2].text = <<>>
    ELSE 0

\* an overflow test that already breaks the line at the exact width
Overflows_AtLimit(cw, char_width) == cw + char_width >= max_content_width

\* main.py 207
Overflows(cw, char_width) == cw + char_width > max_content_width

\* main.py 209, 215: the forbidden-leader branch is taken
PullsBack(cl, char) ==
    char \in no_start_chars /\ cl # <<>> /\ LastRunIndex(cl) >= 1

----------------------------------------------------------------------------
(* wrap_line of main.py, one action per iteration of its while loop. *)

\* main.py 184-196
WrapLineBegin ==
    /\ pc = "wrap_line"
    /\ merged_runs' = MergeRuns(runs)
    /\ runs' = RunsAfterMerge(runs)
    /\ lines' = <<>>
    /\ current_line' = <<>>
    /\ current_width' = 0
    /\ ri' = NextRun(merged_runs', 1)
    /\ i' = 0
    /\ stall' = 0
    /\ pc' = "wrap"
    /\ UNCHANGED <<inputVars, keptVars, exc, original_lines, li, render_units, ui, start,
                   processed_lines, passVars>>

\* main.py 241 and the enclosing for loop
AdvanceChar ==
    IF i + 1 < Len(merged_runs[ri].text)
    THEN /\ i' = i + 1
         /\ ri' = ri
    ELSE /\ i' = 0
         /\ ri' = NextRun(merged_runs, ri + 1)

\* main.py 236-241 with the test of 207 false
WrapPlace ==
    /\ pc = "wrap"
    /\ ri <= Len(merged_runs)
    /\ LET run == merged_runs[ri]
           char == run.text[i + 1]
           char_width == CharWidth(char, run.style)
       IN /\ ~Overflows(current_width, char_width)
          /\ current_line' = PlaceChar(current_line, char, run.style)
          /\ current_width' = current_width + char_width
    /\ AdvanceChar
    /\ stall' = 0
    /\ UNCHANGED <<inputVars, keptVars, pc, exc, original_lines, li, render_units, ui, runs,
                   merged_runs, start, lines, processed_lines, passVars>>

\* main.py 209-230: the last placed character moves to a new line and the
\* same character is looked at again
WrapPullBack ==
    /\ pc = "wrap"
    /\ ri <= Len(merged_runs)
    /\ stall < MaxStall
    /\ LET run == merged_runs[ri]
           char == run.text[i + 1]
           char_width == CharWidth(char, run.style)
           last_run_index == LastRunIndex(current_line)
           last_run == current_line[last_run_index]
           last_char == last_run.text[Len(last_run.text)]
       IN /\ Overflows(current_width, char_width)
          /\ PullsBack(current_line, char)
          /\ lines' = Append(lines,
                 [current_line EXCEPT ![last_run_index].text =
                     SubSeq(@, 1, Len(@) - 1)])
          /\ current_line' = <<[text |-> <<last_char>>, style |-> last_run.style]>>
          /\ current_width' = get_run_width(current_line'[1])
    /\ stall' = stall + 1
    /\ UNCHANGED <<inputVars, keptVars, pc, exc, original_lines, li, render_units, ui, runs,
                   merged_runs, ri, i, start, processed_lines, passVars>>

\* main.py 232-241: the line is closed and the character opens the next
WrapBreak ==
    /\ pc = "wrap"
    /\ ri <= Len(merged_runs)
    /\ LET run == merged_runs[ri]
           char == run.text[i + 1]
           char_width == CharWidth(char, run.style)
       IN /\ Overflows(current_width, char_width)
          /\ ~PullsBack(current_line, char)
          /\ lines' = Append(lines, current_line)
          /\ current_line' = PlaceChar(<<>>, char, run.style)
          /\ current_width' = 0 + char_width
    /\ AdvanceChar
    /\ stall' = 0
    /\ UNCHANGED <<inputVars, keptVars, pc, exc, original_lines, li, render_units, ui, runs,
                   merged_runs, start, processed_lines, passVars>>

\* main.py 243-245 and 259
WrapLineReturn ==
    /\ pc = "wrap"
    /\ ri > Len(merged_runs)
    /\ lines' = IF current_line # <<>> THEN Append(lines, current_line) ELSE lines
    /\ processed_lines' = processed_lines \o lines'
    /\ li' = li + 1
    /\ pc' = "parse"
    /\ UNCHANGED <<inputVars, keptVars, exc, original_lines, render_units, ui, runs, merged_runs,
                   ri, i, start, current_line, current_width, stall, passVars>>

----------------------------------------------------------------------------
(* _calculate_layout of image_utils.py: the loop over the render units and   *)
(* its wrapper, one action per iteration of the outer while loop.            *)

NO_START_CHARS == no_start_chars

\* image_utils.py 122-130: the inner while loop; returns end
RECURSIVE ScanEnd(_, _, _, _, _, _, _)
ScanEnd(text, style, st, end, slice_width, cw, max_width) ==
    IF end < Len(text)
    THEN LET char_width == CharWidth(text[end + 1], style)
         IN IF cw + slice_width + char_width > max_width /\ end > st
            THEN end
            ELSE ScanEnd(text, style, st, end + 1, slice_width + char_width, cw,
                         max_width)
    ELSE end

\* image_utils.py 134-136: wrap one character earlier before a forbidden leader
ChunkEnd(text, style, st, cw, max_width) ==
    LET end == ScanEnd(text, style, st, st, 0, cw, max_width)
    IN IF end < Len(text) /\ text[end + 1] \in NO_START_CHARS /\ end > st
       THEN end - 1
       ELSE end

\* image_utils.py 141-146
AddChunk(cl, chunk, style) ==
    IF chunk = <<>> THEN cl
    ELSE IF cl # <<>> /\ cl[Len(cl)].style = style
    THEN [cl EXCEPT ![Len(cl)].text = @ \o chunk]
    ELSE Append(cl, [text |-> chunk, style |-> style])

\* image_utils.py 99: "type" in runs[0] on a unit without runs
LayoutIndexError ==
    /\ pc = "layout"
    /\ ui <= Len(render_units)
    /\ render_units[ui] = <<>>
    /\ pc' = "raised"
    /\ exc' = "IndexError"
    /\ UNCHANGED <<inputVars, keptVars, original_lines, li, render_units, ui, wrapVars,
                   processed_lines, passVars>>

\* image_utils.py 99-101
LayoutPlaceholder ==
    /\ pc = "layout"
    /\ ui <= Len(render_units)
    /\ render_units[ui] # <<>>
    /\ "type" \in DOMAIN render_units[ui][1]
    /\ processed_lines' = Append(processed_lines, render_units[ui])
    /\ ui' = ui + 1
    /\ UNCHANGED <<inputVars, keptVars, pc, exc, original_lines, li, render_units, wrapVars,
                   passVars>>

\* image_utils.py 103-114
LayoutBeginWrap ==
    /\ pc = "layout"
    /\ ui <= Len(render_units)
    /\ render_units[ui] # <<>>
    /\ "type" \notin DOMAIN render_units[ui][1]
    /\ merged_runs' = MergeRuns(render_units[ui])
    /\ runs' = RunsAfterMerge(render_units[ui])
    /\ render_units' = [render_units EXCEPT ![ui] = runs']
    /\ lines' = <<>>
    /\ current_line' = <<>>
    /\ current_width' = 0
    /\ ri' = NextRun(merged_runs', 1)
    /\ start' = 0
    /\ stall' = 0
    /\ pc' = "uwrap"
    /\ UNCHANGED <<inputVars, keptVars, exc, original_lines, li, ui, i, processed_lines,
                   passVars>>

\* image_utils.py 120-154, an iteration that takes at least one character
UWrapChunk ==
    /\ pc = "uwrap"
    /\ ri <= Len(merged_runs)
    /\ LET run == merged_runs[ri]
           text == run.text
           end == ChunkEnd(text, run.style, start, current_width, max_content_width)
           chunk == Slice(text, start, end)
           cl == AddChunk(current_line, chunk, run.style)
       IN /\ end > start
          /\ IF end < Len(text)
             THEN /\ lines' = Append(lines, cl)
                  /\ current_line' = <<>>
                  /\ current_width' = 0
                  /\ start' = end
                  /\ ri' = ri
             ELSE /\ lines' = lines
                  /\ current_line' = cl
                  /\ current_width' = current_width + TextWidth(chunk, run.style)
                  /\ start' = 0
                  /\ ri' = NextRun(merged_runs, ri + 1)
    /\ stall' = 0
    /\ UNCHANGED <<inputVars, keptVars, pc, exc, original_lines, li, render_units, ui, runs,
                   merged_runs, i, processed_lines, passVars>>

\* image_utils.py 120-154, an iteration whose chunk is empty: the line is
\* closed and start stays where it was
UWrapEmptyChunk ==
    /\ pc = "uwrap"
    /\ ri <= Len(merged_runs)
    /\ stall < MaxStall
    /\ LET run == merged_runs[ri]
           end == ChunkEnd(run.text, run.style, start, current_width,
                           max_content_width)
       IN /\ end = start
          /\ lines' = Append(lines, current_line)
          /\ current_line' = <<>>
          /\ current_width' = 0
    /\ stall' = stall + 1
    /\ UNCHANGED <<inputVars, keptVars, pc, exc, original_lines, li, render_units, ui, runs,
                   merged_runs, ri, i, start, processed_lines, passVars>>

\* image_utils.py 156-158
UWrapEnd ==
    /\ pc = "uwrap"
    /\ ri > Len(merged_runs)
    /\ lines' = IF current_line # <<>> THEN Append(lines, current_line) ELSE lines
    /\ processed_lines' = processed_lines \o lines'
    /\ ui' = ui + 1
    /\ pc' = "layout"
    /\ UNCHANGED <<inputVars, keptVars, exc, original_lines, li, render_units, runs, merged_runs,
                   ri, i, start, current_line, current_width, stall, passVars>>

\* the loop over the render units is over
LayoutLoopEnd ==
    /\ pc = "layout"
    /\ ui > Len(render_units)
    /\ pc' = "measure"
    /\ k' = 1
    /\ total_height' = 0
    /\ UNCHANGED <<inputVars, keptVars, exc, original_lines, li, render_units, ui, wrapVars,
                   processed_lines, img_height, current_y>>

----------------------------------------------------------------------------
(* Height pass (main.py 272-288, image_utils.py 176-190) and drawing pass    *)
(* (main.py 303-327, image_utils.py 231-255).                                *)

is_divider(line) == line # <<>> /\ "type" \in DOMAIN line[1] /\ line[1].type = "divider"

is_empty_line(line) == line # <<>> /\ "type" \in DOMAIN line[1] /\ line[1].type = "empty"

rule_height == get_line_height(<<[text |-> <<RuleChar>>, style |-> "normal"]>>)

blank_height == get_line_height(<<[text |-> <<" ">>, style |-> "normal"]>>)

\* main.py 277 and 309 index the previous line's first element
PrevHasNoElement(pl, n) == n > 1 /\ is_divider(pl[n]) /\ pl[n - 1] = <<>>

\* main.py 277
MeasurePullsMain(pl, n) ==
    n > 1 /\ "type" \in DOMAIN pl[n - 1][1] /\ pl[n - 1][1].type # "empty"

\* image_utils.py 181
MeasurePullsUtils(pl, n) == n > 1 /\ ~is_empty_line(pl[n - 1])

\* a height step that adds the spacing after the last line as well
MeasureAdvance_TrailingSpacing(im, pl, n, spacing, margin) ==
    LET line == pl[n]
        pulls == IF im = "main" THEN MeasurePullsMain(pl, n)
                 ELSE MeasurePullsUtils(pl, n)
        own == IF is_divider(line)
               THEN (IF pulls THEN 0 - spacing ELSE 0) + rule_height + (2 * margin)
               ELSE IF is_empty_line(line) THEN blank_height
               ELSE get_line_height(line)
    IN own + spacing

\* what one iteration of the height pass adds to total_height
MeasureAdvance(im, pl, n, spacing, margin) ==
    LET line == pl[n]
        pulls == IF im = "main" THEN MeasurePullsMain(pl, n)
                 ELSE MeasurePullsUtils(pl, n)
        own == IF is_divider(line)
               THEN (IF pulls THEN 0 - spacing ELSE 0) + rule_height + (2 * margin)
               ELSE IF is_empty_line(line) THEN blank_height
               ELSE get_line_height(line)
    IN own + (IF n # Len(pl) THEN spacing ELSE 0)

\* main.py 309
DrawPullsMain(pl, n) ==
    n > 1 /\ "type" \in DOMAIN pl[n - 1][1] /\ pl[n - 1][1].type # "empty"

\* image_utils.py 237
DrawPullsUtils(pl, n) == n > 1 /\ ~is_empty_line(pl[n - 1])

\* a drawing pass that leaves out the margin below the rule
DrawAdvance_OneMargin(im, pl, n, spacing, margin) ==
    LET line == pl[n]
        pulls == IF im = "main" THEN DrawPullsMain(pl, n) ELSE DrawPullsUtils(pl, n)
        own == IF is_divider(line)
               THEN (IF pulls THEN 0 - spacing ELSE 0) + margin + rule_height
               ELSE IF is_empty_line(line) THEN blank_height
               ELSE get_line_height(line)
    IN own + (IF n # Len(pl) THEN spacing ELSE 0)

\* what one iteration of the drawing pass adds to current_y
DrawAdvance(im, pl, n, spacing, margin) ==
    LET line == pl[n]
        pulls == IF im = "main" THEN DrawPullsMain(pl, n) ELSE DrawPullsUtils(pl, n)
        own == IF is_divider(line)
               THEN (IF pulls THEN 0 - spacing ELSE 0) + margin + (rule_height + margin)
               ELSE IF is_empty_line(line) THEN blank_height
               ELSE get_line_height(line)
    IN own + (IF n # Len(pl) THEN spacing ELSE 0)

MeasureLine ==
    /\ pc = "measure"
    /\ k <= Len(processed_lines)
    /\ IF impl = "main" /\ PrevHasNoElement(processed_lines, k)
       THEN /\ pc' = "raised"
            /\ exc' = "IndexError"
            /\ UNCHANGED <<k, total_height>>
       ELSE /\ total_height' = total_height
                + MeasureAdvance(impl, processed_lines, k, text_line_spacing,
                                 divider_margin)
            /\ k' = k + 1
            /\ UNCHANGED <<pc, exc>>
    /\ UNCHANGED <<inputVars, keptVars, original_lines, li, render_units, ui, wrapVars,
                   processed_lines, img_height, current_y>>

\* main.py 288 and 303; image_utils.py 192 and 231
MeasureEnd ==
    /\ pc = "measure"
    /\ k > Len(processed_lines)
    /\ img_height' = IF impl = "main" THEN total_height + (2 * padding) ELSE img_height
    /\ current_y' = padding
    /\ k' = 1
    /\ pc' = "draw"
    /\ UNCHANGED <<inputVars, keptVars, exc, original_lines, li, render_units, ui, wrapVars,
                   processed_lines, total_height>>

DrawLine ==
    /\ pc = "draw"
    /\ k <= Len(processed_lines)
    /\ IF impl = "main" /\ PrevHasNoElement(processed_lines, k)
       THEN /\ pc' = "raised"
            /\ exc' = "IndexError"
            /\ UNCHANGED <<k, current_y>>
       ELSE /\ current_y' = current_y
                + DrawAdvance(impl, processed_lines, k, text_line_spacing,
                              divider_margin)
            /\ k' = k + 1
            /\ UNCHANGED <<pc, exc>>
    /\ UNCHANGED <<inputVars, keptVars, original_lines, li, render_units, ui, wrapVars,
                   processed_lines, total_height, img_height>>

DrawEnd ==
    /\ pc = "draw"
    /\ k > Len(processed_lines)
    /\ pc' = "done"
    /\ UNCHANGED <<inputVars, keptVars, exc, original_lines, li, render_units, ui, wrapVars,
                   processed_lines, passVars>>

----------------------------------------------------------------------------

Next ==
    \/ Split
    \/ AppendEmpty
    \/ AppendDivider
    \/ ParseContentMain
    \/ ParseContentUtils
    \/ ParseLoopEnd
    \/ WrapLineBegin
    \/ WrapPlace
    \/ WrapPullBack
    \/ WrapBreak
    \/ WrapLineReturn
    \/ LayoutIndexError
    \/ LayoutPlaceholder
    \/ LayoutBeginWrap
    \/ UWrapChunk
    \/ UWrapEmptyChunk
    \/ UWrapEnd
    \/ LayoutLoopEnd
    \/ MeasureLine
    \/ MeasureEnd
    \/ DrawLine
    \/ DrawEnd

Spec == Init /\ [][Next]_vars

----------------------------------------------------------------------------
(* A second call after a finished one, on the same arguments. *)

\* image_utils.py 62 and 91: after text_to_image has returned, the same text,
\* width, metrics, spacing and margin go through _parse_text_to_render_units
\* and _calculate_layout
CallOtherCopy ==
    /\ pc = "done"
    /\ call = "first"
    /\ impl = "main"
    /\ call' = "other_copy"
    /\ first_lines' = processed_lines
    /\ first_height' = total_height
    /\ impl' = "utils"
    /\ pc' = "split"
    /\ original_lines' = <<>>
    /\ li' = 1
    /\ render_units' = <<>>
    /\ ui' = 1
    /\ runs' = <<>>
    /\ merged_runs' = <<>>
    /\ ri' = 1
    /\ i' = 0
    /\ start' = 0
    /\ current_line' = <<>>
    /\ current_width' = 0
    /\ lines' = <<>>
    /\ stall' = 0
    /\ processed_lines' = <<>>
    /\ k' = 1
    /\ total_height' = 0
    /\ img_height' = 0
    /\ current_y' = 0
    /\ UNCHANGED <<text_content, width, padding, text_line_spacing, divider_margin, exc>>

\* image_utils.py 91-97: _calculate_layout is called once more with the list
\* of render units the first call was given
CallLayoutAgain ==
    /\ pc = "done"
    /\ call = "first"
    /\ impl = "utils"
    /\ call' = "relayout"
    /\ first_lines' = processed_lines
    /\ first_height' = total_height
    /\ pc' = "layout"
    /\ ui' = 1
    /\ runs' = <<>>
    /\ merged_runs' = <<>>
    /\ ri' = 1
    /\ start' = 0
    /\ current_line' = <<>>
    /\ current_width' = 0
    /\ lines' = <<>>
    /\ stall' = 0
    /\ processed_lines' = <<>>
    /\ k' = 1
    /\ total_height' = 0
    /\ current_y' = 0
    /\ UNCHANGED <<inputVars, exc, original_lines, li, render_units, i, img_height>>

NextTwoCalls ==
    \/ Next
    \/ CallOtherCopy
    \/ CallLayoutAgain

SpecTwoCalls == Init /\ [][NextTwoCalls]_vars

----------------------------------------------------------------------------
(* Vocabulary of the properties. *)

IsPlaceholder(line) == line # <<>> /\ "type" \in DOMAIN line[1]

IsContent(line) == ~IsPlaceholder(line)

\* summed character width of the runs of a Content line
RECURSIVE LineWidth(_)
LineWidth(line) ==
    IF line = <<>> THEN 0
    ELSE TextWidth(Head(line).text, Head(line).style) + LineWidth(Tail(line))

\* the characters of a sequence of runs, in order
RECURSIVE RunChars(_)
RunChars(rs) == IF rs = <<>> THEN <<>> ELSE Head(rs).text \o RunChars(Tail(rs))

\* every physical line the wrapper has closed so far in this call
ClosedLines ==
    {lines[j] : j \in 1..Len(lines)}
    \cup {processed_lines[j] : j \in 1..Len(processed_lines)}

\* the wrapper of either copy is at work or has returned
Wrapping == pc \in {"wrap", "uwrap"}

----------------------------------------------------------------------------
(* C1: wrapping terminates.  Between two consumed characters the wrapper     *)
(* goes at most once through an iteration that consumes nothing (the         *)
(* forbidden-leader pull-back); a second such iteration in a row starts      *)
(* from the same position, line and width as the first, so the loop never    *)
(* ends and closes a physical line on every turn.                            *)
C1_PullBackNeverRepeats == stall <= 1

\* no glyph of the text is wider than the content width in either face
EveryGlyphFits ==
    \A j \in 1..Len(text_content) :
        CharWidth(text_content[j], "bold") <= max_content_width

(* C2: every Content physical line is at most max_content_width wide.  The   *)
(* statement is taken on the texts all of whose glyphs fit the content       *)
(* width: the line of a lone glyph wider than max_content_width exceeds it   *)
(* in both copies and is not what is looked for here.                        *)
C2_WidthBound ==
    EveryGlyphFits =>
        \A line \in ClosedLines :
            IsContent(line) => LineWidth(line) <= max_content_width

(* C3: among the physical lines of one logical line, none but the first      *)
(* begins with a forbidden leading character.                                *)
C3_NoForbiddenLeader ==
    \A j \in 2..Len(lines) :
        LET chars == RunChars(lines[j])
        IN chars # <<>> => chars[1] \notin no_start_chars

----------------------------------------------------------------------------
(* C4: height agreement.  When the drawing pass has drawn the last line, its *)
(* y cursor is padding + total_height of the height pass, and the canvas     *)
(* height allocated from total_height is that cursor plus the padding.       *)
C4_HeightAgreement ==
    pc = "done" =>
        /\ current_y = padding + total_height
        /\ impl = "main" => img_height = current_y + padding

\* a finished call whose lines are a Content line, a Blank and a Divider
\* that follows a line which is not Blank
C4_Witness ==
    /\ pc = "done"
    /\ text_line_spacing > 0
    /\ \E n \in 1..Len(processed_lines) : is_empty_line(processed_lines[n])
    /\ \E n \in 1..Len(processed_lines) :
          IsContent(processed_lines[n]) /\ processed_lines[n] # <<>>
    /\ \E n \in 2..Len(processed_lines) :
          is_divider(processed_lines[n]) /\ ~is_empty_line(processed_lines[n - 1])

----------------------------------------------------------------------------
(* C5: divider pull-back.  The total height is the sum of the line heights,  *)
(* one text_line_spacing after every line but the last, 2*divider_margin     *)
(* for every Divider, and one text_line_spacing less for every Divider       *)
(* whose preceding physical line is not Blank.                               *)

ClaimedLineHeight(line) ==
    IF is_divider(line) THEN rule_height
    ELSE IF is_empty_line(line) THEN blank_height
    ELSE get_line_height(line)

RECURSIVE ClaimedHeight(_, _, _, _)
ClaimedHeight(pl, n, spacing, margin) ==
    IF n = 0 THEN 0
    ELSE ClaimedHeight(pl, n - 1, spacing, margin)
         + ClaimedLineHeight(pl[n])
         + (IF n < Len(pl) THEN spacing ELSE 0)
         + (IF is_divider(pl[n]) THEN 2 * margin ELSE 0)
         - (IF is_divider(pl[n]) /\ n > 1 /\ ~is_empty_line(pl[n - 1])
            THEN spacing ELSE 0)

C5_DividerPullBack ==
    pc \in {"draw", "done"} =>
        total_height = ClaimedHeight(processed_lines, Len(processed_lines),
                                     text_line_spacing, divider_margin)

----------------------------------------------------------------------------
(* C6: no exception for any input text: parsing, wrapping and the height     *)
(* computation never raise.                                                  *)
C6_NoException == exc = "none" /\ pc # "raised"

----------------------------------------------------------------------------
(* The reading of the markup the specification gives: scanning from the      *)
(* left, a "**" that has another "**" after it opens a pair which the        *)
(* nearest such "**" closes; every other character is literal.               *)

OpensPair(s) == Len(s) >= 4 /\ s[1] = Star /\ s[2] = Star
                /\ \E q \in 3..(Len(s) - 1) : s[q] = Star /\ s[q + 1] = Star

ClosesAt(s) ==
    CHOOSE q \in 3..(Len(s) - 1) :
        /\ s[q] = Star /\ s[q + 1] = Star
        /\ \A q2 \in 3..(q - 1) : ~(s[q2] = Star /\ s[q2 + 1] = Star)

\* the line with only the delimiters of matched pairs removed
RECURSIVE WithoutPairDelimiters(_)
WithoutPairDelimiters(s) ==
    IF s = <<>> THEN <<>>
    ELSE IF OpensPair(s)
    THEN SubSeq(s, 3, ClosesAt(s) - 1)
            \o WithoutPairDelimiters(SubSeq(s, ClosesAt(s) + 2, Len(s)))
    ELSE <<Head(s)>> \o WithoutPairDelimiters(Tail(s))

NormalRun(t) == IF t = <<>> THEN <<>> ELSE <<[text |-> t, style |-> "normal"]>>
BoldRun(t) == IF t = <<>> THEN <<>> ELSE <<[text |-> t, style |-> "bold"]>>

\* Bold for the text of each pair, Normal for the text between pairs
RECURSIVE PairedRuns(_, _)
PairedRuns(s, literal) ==
    IF s = <<>> THEN NormalRun(literal)
    ELSE IF OpensPair(s)
    THEN NormalRun(literal) \o BoldRun(SubSeq(s, 3, ClosesAt(s) - 1))
            \o PairedRuns(SubSeq(s, ClosesAt(s) + 2, Len(s)), <<>>)
    ELSE PairedRuns(Tail(s), Append(literal, Head(s)))

\* the logical lines parsed so far as Content by image_utils.py, with their runs
ParsedUnits ==
    IF impl = "utils" /\ pc = "parse"
    THEN {<<original_lines[j], render_units[j]>> :
             j \in {n \in 1..Len(render_units) : IsContent(render_units[n])}}
    ELSE {}

\* the logical line main.py has just parsed, with its runs
ParsedLine ==
    IF impl = "main" /\ pc = "wrap_line" THEN {<<original_lines[li], runs>>} ELSE {}

(* C7: unmatched bold delimiters are kept as literal text: the characters    *)
(* of the parsed runs are the line without the delimiters of matched pairs.  *)
C7_UnmatchedDelimitersKept ==
    \A lr \in ParsedUnits \cup ParsedLine :
        RunChars(lr[2]) = WithoutPairDelimiters(lr[1])

----------------------------------------------------------------------------
(* C8: non-empty runs: every physical line of the parser and the wrapper     *)
(* has at least one run and every run has a non-empty text.                  *)
C8_NonEmptyRuns ==
    /\ \A line \in ClosedLines :
          IsContent(line) =>
              line # <<>> /\ \A j \in 1..Len(line) : line[j].text # <<>>
    /\ \A lr \in ParsedUnits \cup ParsedLine :
          \A j \in 1..Len(lr[2]) : lr[2][j].text # <<>>

----------------------------------------------------------------------------
(* C9: line classification.  A line is Blank iff its raw form is empty,      *)
(* Divider iff its form without surrounding whitespace has at least three    *)
(* characters, all of them "-" or the em dash, and Content otherwise.        *)

\* the line is blanks, then at least three dashes, then blanks
ClaimedDivider(line) ==
    \E a \in 1..Len(line) : \E b \in a..Len(line) :
        /\ b - a + 1 >= 3
        /\ \A j \in 1..Len(line) :
              IF j < a \/ j > b THEN line[j] = " " ELSE line[j] \in {"-", EmDash}

ClaimedClass(line) ==
    IF Len(line) = 0 THEN "Blank"
    ELSE IF ClaimedDivider(line) THEN "Divider"
    ELSE "Content"

\* what a logical line of that class leaves in the list of lines or units
ClaimedEntry(line) ==
    IF ClaimedClass(line) = "Blank" THEN <<[type |-> "empty"]>>
    ELSE IF ClaimedClass(line) = "Divider" THEN <<[type |-> "divider"]>>
    ELSE <<>>

RECURSIVE ClaimedPlaceholders(_)
ClaimedPlaceholders(ls) ==
    IF ls = <<>> THEN <<>>
    ELSE (IF ClaimedClass(Head(ls)) = "Content" THEN <<>> ELSE <<ClaimedEntry(Head(ls))>>)
         \o ClaimedPlaceholders(Tail(ls))

OneNormalRun(line) == <<[text |-> line, style |-> "normal"]>>

\* a Content line without asterisks is one Normal run of the whole line
PlainContent(line) ==
    ClaimedClass(line) = "Content" /\ \A j \in 1..Len(line) : line[j] # Star

C9_LineClassification ==
    /\ (impl = "utils" /\ pc = "parse") =>
          \A j \in 1..Len(render_units) :
             /\ ClaimedClass(original_lines[j]) # "Content"
                   => render_units[j] = ClaimedEntry(original_lines[j])
             /\ ClaimedClass(original_lines[j]) = "Content"
                   => IsContent(render_units[j])
             /\ PlainContent(original_lines[j])
                   => render_units[j] = OneNormalRun(original_lines[j])
    /\ (impl = "main" /\ pc = "parse") =>
          SelectSeq(processed_lines, IsPlaceholder)
             = ClaimedPlaceholders(SubSeq(original_lines, 1, li - 1))
    /\ (impl = "main" /\ pc = "wrap_line") =>
          /\ ClaimedClass(original_lines[li]) = "Content"
          /\ PlainContent(original_lines[li]) => runs = OneNormalRun(original_lines[li])

\* a document with a Blank line, the Content line "--" and a Divider, all parsed
C9_Witness ==
    /\ impl = "utils"
    /\ pc = "parse"
    /\ li > Len(original_lines)
    /\ \E a, b, c \in 1..Len(original_lines) :
          /\ original_lines[a] = <<>>
          /\ render_units[a] = <<[type |-> "empty"]>>
          /\ original_lines[b] = <<"-", "-">>
          /\ render_units[b] = <<[text |-> <<"-", "-">>, style |-> "normal"]>>
          /\ original_lines[c] = <<"-", "-", "-">>
          /\ render_units[c] = <<[type |-> "divider"]>>

----------------------------------------------------------------------------
(* C10: bold parsing pairs the delimiters from left to right without         *)
(* overlap: the text of every pair is a Bold run, the text outside the pairs *)
(* is Normal runs, in input order, empty runs discarded.                     *)
C10_BoldPairing ==
    \A lr \in ParsedUnits \cup ParsedLine : lr[2] = PairedRuns(lr[1], <<>>)

----------------------------------------------------------------------------
(* C11: round trip of plain text.  When no line of the text contains "**",   *)
(* is empty or is a divider, and every line is at most max_content_width     *)
(* wide, the physical lines are the logical lines, one for one and in        *)
(* order, each a single Normal run holding the line.                         *)

PlainLine(line) ==
    /\ line # <<>>
    /\ \A j \in 1..(Len(line) - 1) : ~(line[j] = Star /\ line[j + 1] = Star)
    /\ ~ClaimedDivider(line)
    /\ TextWidth(line, "normal") <= max_content_width

PlainText == \A j \in 1..Len(original_lines) : PlainLine(original_lines[j])

\* every logical line has been parsed and wrapped
LayoutDone == pc \in {"measure", "draw", "done"}

C11_PlainRoundTrip ==
    (LayoutDone /\ PlainText) =>
        processed_lines = [j \in 1..Len(original_lines) |-> OneNormalRun(original_lines[j])]

\* a plain text of several lines, one of which fills the content width exactly
C11_Witness ==
    /\ LayoutDone
    /\ PlainText
    /\ Len(original_lines) >= 2
    /\ \E j \in 1..Len(original_lines) :
          /\ Len(original_lines[j]) >= 2
          /\ TextWidth(original_lines[j], "normal") = max_content_width
    /\ Len(processed_lines) = Len(original_lines)

----------------------------------------------------------------------------
(* C12: inter-line spacing count.  For n >= 1 physical lines with no Divider *)
(* among them, the total height is the sum of the n line heights plus        *)
(* (n - 1) text_line_spacing, none after the last line, and the canvas of    *)
(* text_to_image is that plus 2*padding; the text "a", blank, "a" gives the  *)
(* lines Content, Blank, Content with two spacings.                          *)

RECURSIVE SumLineHeights(_, _)
SumLineHeights(pl, n) ==
    IF n = 0 THEN 0 ELSE SumLineHeights(pl, n - 1) + ClaimedLineHeight(pl[n])

NoDivider(pl) == \A n \in 1..Len(pl) : ~is_divider(pl[n])

HeightComputed == pc \in {"draw", "done"}

ContentBlankContent == <<"a", NL, NL, "a">>

C12_SpacingCount ==
    /\ (HeightComputed /\ Len(processed_lines) >= 1 /\ NoDivider(processed_lines)) =>
          /\ total_height = SumLineHeights(processed_lines, Len(processed_lines))
                            + ((Len(processed_lines) - 1) * text_line_spacing)
          /\ impl = "main" => img_height = total_height + (2 * padding)
    /\ (HeightComputed /\ text_content = ContentBlankContent) =>
          /\ processed_lines = <<OneNormalRun(<<"a">>), empty_line_placeholder,
                                 OneNormalRun(<<"a">>)>>
          /\ total_height = (2 * TextHeight(<<"a">>, "normal")) + blank_height
                            + (2 * text_line_spacing)

\* the finished call on the text "a", blank, "a" with a spacing that counts
C12_Witness ==
    /\ pc = "done"
    /\ text_content = ContentBlankContent
    /\ text_line_spacing > 0
    /\ Len(processed_lines) = 3
    /\ NoDivider(processed_lines)

----------------------------------------------------------------------------
(* C13: the wrapper leaves the parser's runs alone.  Once the wrapper has    *)
(* started on a logical line, the run sequence the parser emitted for that   *)
(* line still is what the parser emitted (in _calculate_layout every Content *)
(* render unit, in wrap_line its argument), and a second _calculate_layout   *)
(* on the same render units gives the physical lines and the total height    *)
(* of the first.                                                             *)

ParserRunsUnchanged ==
    /\ impl = "utils" =>
          \A j \in 1..Len(render_units) :
              (render_units[j] # <<>> /\ "type" \notin DOMAIN render_units[j][1]) =>
                  render_units[j] = parse_line_to_runs(original_lines[j])
    /\ (impl = "main" /\ pc = "wrap") =>
          runs = parse_line_to_runs(original_lines[li])

RelayoutAgrees ==
    (call = "relayout" /\ HeightComputed) =>
        /\ processed_lines = first_lines
        /\ total_height = first_height

C13_LayoutRepeatable == ParserRunsUnchanged /\ RelayoutAgrees

----------------------------------------------------------------------------
(* C14: wrapping preserves content.  When the wrapper has gone through all   *)
(* runs of a Content logical line, the (character, style) pairs of the runs  *)
(* of the physical lines it produced, in line and run order, are those of    *)
(* the runs the parser emitted for the line.                                 *)

\* the (character, style) pairs of a sequence of runs
RECURSIVE StyledChars(_)
StyledChars(rs) ==
    IF rs = <<>> THEN <<>>
    ELSE [j \in 1..Len(Head(rs).text) |-> <<Head(rs).text[j], Head(rs).style>>]
         \o StyledChars(Tail(rs))

RECURSIVE StyledCharsOfLines(_)
StyledCharsOfLines(ls) ==
    IF ls = <<>> THEN <<>> ELSE StyledChars(Head(ls)) \o StyledCharsOfLines(Tail(ls))

\* the wrapper has consumed every run of its logical line
WrapFinished == Wrapping /\ ri > Len(merged_runs)

\* the physical lines of the logical line, the open one included
ProducedLines == IF current_line # <<>> THEN Append(lines, current_line) ELSE lines

WrappedLine == IF impl = "main" THEN original_lines[li] ELSE original_lines[ui]

C14_ContentPreserved ==
    WrapFinished =>
        StyledCharsOfLines(ProducedLines) = StyledChars(parse_line_to_runs(WrappedLine))

\* a line of two styles, broken one character early so that the forbidden
\* leader is second on its physical line: the line before had room for the
\* character that was pulled back
C14_Witness ==
    /\ WrapFinished
    /\ Len(merged_runs) >= 2
    /\ \E j \in 2..Len(ProducedLines) :
          LET sc == StyledChars(ProducedLines[j])
          IN /\ Len(sc) >= 2
             /\ sc[2][1] \in no_start_chars
             /\ LineWidth(ProducedLines[j - 1]) + CharWidth(sc[1][1], sc[1][2])
                    <= max_content_width

----------------------------------------------------------------------------
(* C15: the two copies agree.  For the same text, width, metrics, spacing    *)
(* and margin, _parse_text_to_render_units followed by _calculate_layout     *)
(* gives the physical lines and the total height that text_to_image gave.    *)
C15_CopiesAgree ==
    (call = "other_copy" /\ HeightComputed) =>
        /\ processed_lines = first_lines
        /\ total_height = first_height

====
